---- MODULE Spec2Model ----
(***************************************************************************)
(* The credit-risk notebook 04-random-forests.ipynb as a state machine.    *)
(* One action per code cell, executed top to bottom by one kernel.  A cell *)
(* whose statement raises stops the run.  The calls into pyspark / pandas  *)
(* are modelled by what the notebook passes to them and by the library's   *)
(* documented behaviour on those arguments.                                *)
(***************************************************************************)
EXTENDS Integers, Sequences, FiniteSets, TLC

VARIABLES
    csv,                  \* ../data/germancredit.csv as found on disk
    pc,                   \* index in Cells of the next cell to execute
    error,                \* kind of the exception that stopped the run
    credits_df,
    display,              \* the value the last executed cell displayed
    feature_column_names,
    features_df,
    train_data,
    test_data,
    resplit,              \* train/test of an independent second run of the split
    rf,
    model,
    predictions,
    accuracy,
    importances_df,
    tree_model_string

vars == <<csv, pc, error, credits_df, display, feature_column_names,
          features_df, train_data, test_data, resplit, rf, model, predictions,
          accuracy, importances_df, tree_model_string>>

NULL == "null"            \* Python None / a name not yet bound / a SQL null

-----------------------------------------------------------------------------
(* Bounds of the model *)

MaxRows == 2              \* data rows in the file
MaxImportance == 3        \* importance scores range over 0..MaxImportance
MaxSplits == 2            \* split nodes on the leftmost path of trees[0]

-----------------------------------------------------------------------------
(* The input file *)

\* Header of germancredit.csv: the label first, then the twenty attributes.
CsvHeader ==
    <<"creditability", "balance", "duration", "history", "purpose", "amount",
      "savings", "employment", "instPercent", "sexMarried", "guarantors",
      "residenceDuration", "assets", "age", "concCredit", "apartment",
      "credits", "occupation", "dependents", "hasPhone", "foreign">>

Columns == {CsvHeader[i] : i \in 1..Len(CsvHeader)}

ColumnPosition(c) == CHOOSE i \in 1..Len(CsvHeader) : CsvHeader[i] = c

\* A cell of the file is text: the decimal text of a number, or other text.
Num(n) == <<"num", n>>
Txt == <<"txt", 0>>

\* One line of the file: the label, the balance code and the purpose cell
\* are free; every other cell holds a number that tells its column apart.
CsvLine(label, balance, purpose) ==
    [c \in Columns |->
        CASE c = "creditability" -> Num(label)
          [] c = "balance"       -> Num(balance)
          [] c = "purpose"       -> purpose
          [] OTHER               -> Num(100 * ColumnPosition(c) + balance)]

\* Balance codes in a file: the four of the data dictionary and one more.
BalanceCodes == 1..5

\* A purpose cell is a number or, in a malformed file, not a number.
PurposeCells == {Num(3), Txt}

CsvLines ==
    {CsvLine(l, b, p) : l \in {0, 1}, b \in BalanceCodes, p \in PurposeCells}

SeqsUpTo(S, n) == UNION {[1..k -> S] : k \in 1..n}

CsvFilesOf(lines, n) ==
    {[readable |-> FALSE, lines |-> <<>>]}
      \cup {[readable |-> TRUE, lines |-> ls] : ls \in SeqsUpTo(lines, n)}

-----------------------------------------------------------------------------
(* DataFrames: a schema (column -> type) and rows; a row keeps the number  *)
(* of the file line it came from as its identity.                          *)

IsInt(cell) == cell[1] = "num"

\* inferSchema: a column is integer when every cell parses as one.
InferType(lines, c) ==
    IF \A i \in 1..Len(lines) : IsInt(lines[i][c]) THEN "int" ELSE "string"

\* A cell read under the inferred type: the number, or the text as it is.
Parse(cell, type) == IF type = "int" THEN cell[2] ELSE cell

\* spark.read.format("csv").option("header", True).option("inferSchema", True).load(path)
ReadCsv(file) ==
    LET schema == [c \in Columns |-> InferType(file.lines, c)]
    IN  [schema |-> schema,
         rows   |-> [i \in 1..Len(file.lines) |->
                       [id   |-> i,
                        cols |-> [c \in Columns |-> Parse(file.lines[i][c], schema[c])]]]]

RowIds(df) == {df.rows[i].id : i \in 1..Len(df.rows)}

Cells ==
    <<"session", "load", "printSchema", "head", "describe", "groupAvg",
      "boxplot", "pivot", "featureNames", "assemble", "split", "train",
      "predict", "evaluate", "importances", "treeDump">>

CellIndex(name) == CHOOSE i \in 1..Len(Cells) : Cells[i] = name

At(name) == error = "none" /\ pc = CellIndex(name)

Past(name) == pc > CellIndex(name)

-----------------------------------------------------------------------------
(* How a cell ends *)

\* The cell ran to its end: the kernel goes on to the next cell.
Completes == pc' = pc + 1 /\ error' = error

\* A statement of the cell raised: the exception ends the run at this cell.
RaiseAndContinue(kind) == error' = kind /\ pc' = pc + 1

Raise(kind) == error' = kind /\ pc' = pc

-----------------------------------------------------------------------------
(* Session and loading *)

\* spark = SparkSession.builder.getOrCreate()
SessionCell ==
    /\ At("session")
    /\ Completes
    /\ UNCHANGED <<csv, credits_df, display, feature_column_names,
                   features_df, train_data, test_data, resplit, rf, model,
                   predictions, accuracy, importances_df, tree_model_string>>

\* credits_df = spark.read.format("csv")...load("../data/germancredit.csv")
LoadCell ==
    /\ At("load")
    /\ IF csv.readable
         THEN credits_df' = ReadCsv(csv) /\ Completes
         ELSE credits_df' = credits_df /\ Raise("load")
    /\ UNCHANGED <<csv, display, feature_column_names, features_df,
                   train_data, test_data, resplit, rf, model, predictions,
                   accuracy, importances_df, tree_model_string>>

-----------------------------------------------------------------------------
(* Explorer *)

\* An Explorer cell written as an assignment: credits_df = credits_df.<...>
ExploredRebinds(shown) ==
    /\ display' = shown
    /\ credits_df' = shown
    /\ Completes
    /\ UNCHANGED <<csv, feature_column_names, features_df, train_data,
                   test_data, resplit, rf, model, predictions, accuracy,
                   importances_df, tree_model_string>>

\* What an Explorer cell leaves behind: only the value it displays.
Explored(shown) ==
    /\ display' = shown
    /\ Completes
    /\ UNCHANGED <<csv, credits_df, feature_column_names, features_df,
                   train_data, test_data, resplit, rf, model, predictions,
                   accuracy, importances_df, tree_model_string>>

\* credits_df.printSchema()
PrintSchemaCell == At("printSchema") /\ Explored(credits_df.schema)

Min(a, b) == IF a <= b THEN a ELSE b

FirstRows(df, n) == SubSeq(df.rows, 1, Min(n, Len(df.rows)))

\* credits_df.toPandas().head(10)
HeadCell == At("head") /\ Explored(FirstRows(credits_df, 10))

RECURSIVE SumOver(_, _, _)
SumOver(rows, c, n) ==
    IF n = 0 THEN 0 ELSE rows[n].cols[c] + SumOver(rows, c, n - 1)

RECURSIVE SumSquares(_, _, _)
SumSquares(rows, c, n) ==
    IF n = 0 THEN 0 ELSE rows[n].cols[c] * rows[n].cols[c] + SumSquares(rows, c, n - 1)

ColumnValues(rows, c) == {rows[i].cols[c] : i \in 1..Len(rows)}

SetMin(S) == CHOOSE x \in S : \A y \in S : x <= y
SetMax(S) == CHOOSE x \in S : \A y \in S : x >= y

\* The summary of one numeric column: count, mean (sum over count), sample
\* variance (numerator over denominator; stddev is its root), min, max.
Summary(rows, c) ==
    LET n  == Len(rows)
        sm == SumOver(rows, c, n)
    IN  [count |-> n,
         mean  |-> <<sm, n>>,
         var   |-> <<n * SumSquares(rows, c, n) - sm * sm, n * (n - 1)>>,
         min   |-> SetMin(ColumnValues(rows, c)),
         max   |-> SetMax(ColumnValues(rows, c))]

Describe(df, cs) == [c \in cs |-> Summary(df.rows, c)]

\* credits_df.describe("amount", "age").toPandas()
DescribeCell == At("describe") /\ Explored(Describe(credits_df, {"amount", "age"}))

Where(rows, c, v) == SelectSeq(rows, LAMBDA r : r.cols[c] = v)

\* df.groupBy(key).agg({c: "avg"}): one row per key value, the mean as sum over count.
GroupAvg(df, key, c) ==
    {[k   |-> k,
      avg |-> <<SumOver(Where(df.rows, key, k), c, Len(Where(df.rows, key, k))),
                Len(Where(df.rows, key, k))>>] : k \in ColumnValues(df.rows, key)}

\* credits_df.groupBy("creditability").agg({"amount" : "avg"}).toPandas()
GroupAvgCell == At("groupAvg") /\ Explored(GroupAvg(credits_df, "creditability", "amount"))

\* sns.boxplot(data=credits_df.toPandas(), x='creditability', y='amount'): the
\* figure is drawn from the (x, y) pairs of a copy of the data.
BoxPlot(df, x, y) ==
    [i \in 1..Len(df.rows) |-> <<df.rows[i].cols[x], df.rows[i].cols[y]>>]

BoxPlotCell == At("boxplot") /\ Explored(BoxPlot(credits_df, "creditability", "amount"))

\* CHECKING_ACCOUNT_STATUS = {1: ..., 2: ..., 3: ..., 4: ...}
CHECKING_ACCOUNT_STATUS ==
    (1 :> "< 0 DM") @@ (2 :> "0 <= ... < 200 DM") @@ (3 :> "... >= 200 DM")
      @@ (4 :> "no checking account")

\* The same lookup written with a default: CHECKING_ACCOUNT_STATUS.get(index, '')
checking_account_status_get(index) ==
    IF index \in DOMAIN CHECKING_ACCOUNT_STATUS
    THEN [raised |-> FALSE, value |-> CHECKING_ACCOUNT_STATUS[index]]
    ELSE [raised |-> FALSE, value |-> ""]

\* lambda index: CHECKING_ACCOUNT_STATUS[index]: the description, or KeyError.
checking_account_status(index) ==
    IF index \in DOMAIN CHECKING_ACCOUNT_STATUS
    THEN [raised |-> FALSE, value |-> CHECKING_ACCOUNT_STATUS[index]]
    ELSE [raised |-> TRUE, value |-> "KeyError"]

\* pivot('creditability') names a column after each label value in the data;
\* the two renames turn '0' into high_risk and '1' into low_risk.
PivotColumn(label) == IF label = 0 THEN "high_risk" ELSE "low_risk"

\* count() of one (balance, label) group; null where the group has no row.
PivotCount(rows, balance, label) ==
    LET n == Len(Where(Where(rows, "balance", balance), "creditability", label))
    IN  IF n = 0 THEN NULL ELSE n

RECURSIVE Descending(_)
Descending(S) ==
    IF S = {} THEN <<>> ELSE <<SetMax(S)>> \o Descending(S \ {SetMax(S)})

\* groupBy('balance').pivot('creditability').count(), renamed, by balance descending.
PivotTable(df) ==
    LET labels   == ColumnValues(df.rows, "creditability")
        balances == Descending(ColumnValues(df.rows, "balance"))
    IN  [i \in 1..Len(balances) |->
            [balance |-> balances[i],
             counts  |-> [n \in {PivotColumn(l) : l \in labels} |->
                            PivotCount(df.rows, balances[i],
                                       CHOOSE l \in labels : PivotColumn(l) = n)]]]

\* The whole pivot cell, through toPandas(): the UDF runs on every row of the
\* table, and one KeyError fails the job.
PivotCell ==
    /\ At("pivot")
    /\ LET table  == PivotTable(credits_df)
           status == [i \in 1..Len(table) |-> checking_account_status(table[i].balance)]
       IN  IF \E i \in 1..Len(table) : status[i].raised
           THEN /\ Raise("lookup")
                /\ UNCHANGED <<csv, credits_df, display, feature_column_names,
                               features_df, train_data, test_data, resplit, rf,
                               model, predictions, accuracy, importances_df,
                               tree_model_string>>
           ELSE Explored([i \in 1..Len(table) |->
                            [balance |-> table[i].balance,
                             counts  |-> table[i].counts,
                             checking_account_status |-> status[i].value]])

-----------------------------------------------------------------------------
(* Feature Assembler *)

FeatureColumnNames ==
    <<"balance", "duration", "history", "purpose", "amount",
      "savings", "employment", "instPercent", "sexMarried",
      "guarantors", "residenceDuration", "assets", "age",
      "concCredit", "apartment", "credits", "occupation",
      "dependents", "hasPhone", "foreign">>

\* feature_column_names = [...]
FeatureNamesCell ==
    /\ At("featureNames")
    /\ feature_column_names' = FeatureColumnNames
    /\ Completes
    /\ UNCHANGED <<csv, credits_df, display, features_df, train_data,
                   test_data, resplit, rf, model, predictions, accuracy,
                   importances_df, tree_model_string>>

\* An assembler given every column of the frame instead of inputCols.
AssembleAllColumns(row, inputCols) ==
    [i \in 1..Len(CsvHeader) |-> row.cols[CsvHeader[i]]]

\* The vector of one row: the values of inputCols, in that order.
Assemble(row, inputCols) ==
    [i \in 1..Len(inputCols) |-> row.cols[inputCols[i]]]

\* transformSchema: every input column exists and is numeric.
AssemblerAccepts(df, inputCols) ==
    \A i \in 1..Len(inputCols) :
        inputCols[i] \in DOMAIN df.schema /\ df.schema[inputCols[i]] = "int"

\* VectorAssembler(inputCols=..., outputCol="features").transform(df)
VectorAssemblerTransform(df, inputCols) ==
    [schema |-> df.schema @@ ("features" :> "vector"),
     rows   |-> [i \in 1..Len(df.rows) |->
                   [id       |-> df.rows[i].id,
                    cols     |-> df.rows[i].cols,
                    features |-> Assemble(df.rows[i], inputCols)]]]

AssembleCell ==
    /\ At("assemble")
    /\ IF AssemblerAccepts(credits_df, feature_column_names)
         THEN /\ features_df' = VectorAssemblerTransform(credits_df, feature_column_names)
              /\ display' = FirstRows(features_df', 5)
              /\ Completes
         ELSE /\ Raise("schema")
              /\ UNCHANGED <<features_df, display>>
    /\ UNCHANGED <<csv, credits_df, feature_column_names, train_data,
                   test_data, resplit, rf, model, predictions, accuracy,
                   importances_df, tree_model_string>>

-----------------------------------------------------------------------------
(* Splitter *)

SplitSeed == 12345

\* randomSplit called without a seed: the library draws one.
UnseededSplit == {SplitSeed, 54321, 2}

\* The seeds the call can run with: the one the cell passes.
SplitSeeds == {SplitSeed}

\* [0.8, 0.2], in tenths.
SplitWeights == <<8, 2>>

\* The sampler's generator, seeded once per split; a draw is a number of
\* sixteenths in [0, 1).
NextDouble(state) == (9 * state + 7) % 16

RECURSIVE Draw(_, _)
Draw(seed, i) == IF i = 0 THEN seed % 16 ELSE NextDouble(Draw(seed, i - 1))

RECURSIVE SumTo(_, _)
SumTo(weights, k) == IF k = 0 THEN 0 ELSE weights[k] + SumTo(weights, k - 1)

\* Two samples taken one by one, each from zero: sample(0.8), sample(0.2).
IndependentBounds(weights) ==
    [k \in 1..Len(weights) |-> [lb |-> 0, ub |-> weights[k]]]

\* The weights normalised to cumulative cells [lb, ub) of [0, total).
SplitBounds(weights) ==
    [k \in 1..Len(weights) |-> [lb |-> SumTo(weights, k - 1), ub |-> SumTo(weights, k)]]

\* One cell sample: the i-th row is kept when its draw falls in [lb, ub).
Sample(df, cell, total, seed) ==
    [schema |-> df.schema,
     rows   |-> SelectSeq(df.rows,
                  LAMBDA r : /\ cell.lb * 16 <= Draw(seed, r.id) * total
                             /\ Draw(seed, r.id) * total < cell.ub * 16)]

\* df.randomSplit(weights, seed): one sample per cell, all with the same seed.
RandomSplit(df, weights, seed) ==
    [k \in 1..Len(weights) |->
        Sample(df, SplitBounds(weights)[k], SumTo(weights, Len(weights)), seed)]

\* train_data, test_data = features_df.randomSplit([0.8, 0.2], 12345)
\* train_data.count(), test_data.count()
SplitCell ==
    /\ At("split")
    /\ \E seed \in SplitSeeds :
          LET parts == RandomSplit(features_df, SplitWeights, seed)
          IN  /\ train_data' = parts[1]
              /\ test_data' = parts[2]
              /\ display' = <<Len(parts[1].rows), Len(parts[2].rows)>>
    /\ Completes
    /\ UNCHANGED <<csv, credits_df, feature_column_names, features_df,
                   resplit, rf, model, predictions, accuracy, importances_df,
                   tree_model_string>>

\* The same cell run a second time, independently, on the same features_df.
SplitCellAgain ==
    /\ error = "none"
    /\ Past("split")
    /\ resplit = NULL
    /\ \E seed \in SplitSeeds :
          LET parts == RandomSplit(features_df, SplitWeights, seed)
          IN  resplit' = <<parts[1], parts[2]>>
    /\ UNCHANGED <<csv, pc, error, credits_df, display, feature_column_names,
                   features_df, train_data, test_data, rf, model, predictions,
                   accuracy, importances_df, tree_model_string>>

-----------------------------------------------------------------------------
(* Trainer *)

\* Smallest k with k * k >= n.
CeilSqrt(n) == CHOOSE k \in 0..n : k * k >= n /\ \A j \in 0..(k - 1) : j * j < n

\* RandomForestClassifier(numTrees=20, maxDepth=5, labelCol="creditability", seed=42);
\* every parameter the call does not name keeps the library's default.
RandomForestClassifier ==
    [numTrees |-> 20, maxDepth |-> 5, labelCol |-> "creditability", seed |-> 42,
     featuresCol |-> "features", maxBins |-> 32, featureSubsetStrategy |-> "auto",
     impurity |-> "gini"]

\* Features tried at a split: "auto" is all of them for one tree and the
\* rounded-up square root for a forest of classifiers.
FeaturesPerSplit(params, numFeatures) ==
    IF params.featureSubsetStrategy = "auto"
    THEN IF params.numTrees = 1 THEN numFeatures ELSE CeilSqrt(numFeatures)
    ELSE numFeatures

\* The importance a forest gives feature index i (0-based), in units of a
\* common denominator.
LearnedImportance(forest, i) == (forest.a * i + forest.b) % (MaxImportance + 1)

\* A forest fitted on the whole frame rather than on the training part.
FitOnEverything(params, df, forest) ==
    LET n == Len(df.rows[1].features)
    IN  [params             |-> params,
         fittedOn           |-> RowIds(features_df),
         numFeatures        |-> n,
         featuresPerSplit   |-> FeaturesPerSplit(params, n),
         featureImportances |-> [i \in 1..n |-> LearnedImportance(forest, i - 1)],
         trees0             |-> forest.tree]

\* rf.fit(df) when the library learns forest: the model remembers of df only
\* what it learned from it.
Fit(params, df, forest) ==
    LET n == Len(df.rows[1].features)
    IN  [params             |-> params,
         fittedOn           |-> RowIds(df),
         numFeatures        |-> n,
         featuresPerSplit   |-> FeaturesPerSplit(params, n),
         featureImportances |-> [i \in 1..n |-> LearnedImportance(forest, i - 1)],
         trees0             |-> forest.tree]

FeatureIndices == 0..(Len(FeatureColumnNames) - 1)

\* What the library can learn: importances and the splits of trees[0].
Forests(imps, splits) ==
    [a : imps, b : imps, tree : SeqsUpTo(FeatureIndices, splits)]

\* rf = RandomForestClassifier(...); model = rf.fit(train_data), the library
\* learning one of forests.
TrainCell(forests) ==
    /\ At("train")
    /\ rf' = RandomForestClassifier
    /\ IF Len(train_data.rows) = 0
         THEN Raise("fit") /\ model' = model
         ELSE /\ \E forest \in forests : model' = Fit(rf', train_data, forest)
              /\ Completes
    /\ UNCHANGED <<csv, credits_df, display, feature_column_names,
                   features_df, train_data, test_data, resplit, predictions,
                   accuracy, importances_df, tree_model_string>>

-----------------------------------------------------------------------------
(* Predictor and Evaluator *)

\* The leaf of trees[0] a feature vector falls in, from split k on: left
\* (value <= 2.5) goes on to the next split, right predicts class 1.
RECURSIVE LeafClass(_, _, _)
LeafClass(tree, features, k) ==
    IF k > Len(tree) THEN 0
    ELSE IF features[tree[k] + 1] <= 2 THEN LeafClass(tree, features, k + 1)
    ELSE 1

\* Class probabilities in tenths, and the class with the larger one (the
\* first on a tie).
Probability(m, features) ==
    IF LeafClass(m.trees0, features, 1) = 1 THEN <<0, 10>> ELSE <<10, 0>>

ArgMax(p) == IF p[2] > p[1] THEN 1 ELSE 0

\* model.transform(df): df with the probability and prediction columns.
Transform(m, df) ==
    [schema |-> df.schema,
     rows   |-> [i \in 1..Len(df.rows) |->
                   [id          |-> df.rows[i].id,
                    cols        |-> df.rows[i].cols,
                    features    |-> df.rows[i].features,
                    probability |-> Probability(m, df.rows[i].features),
                    prediction  |-> ArgMax(Probability(m, df.rows[i].features))]]]

\* predictions = model.transform(test_data); predictions.toPandas()[[...]].head(10)
PredictCell ==
    /\ At("predict")
    /\ predictions' = Transform(model, test_data)
    /\ display' = [i \in 1..Min(10, Len(predictions'.rows)) |->
                      <<predictions'.rows[i].probability, predictions'.rows[i].prediction>>]
    /\ Completes
    /\ UNCHANGED <<csv, credits_df, feature_column_names, features_df,
                   train_data, test_data, resplit, rf, model, accuracy,
                   importances_df, tree_model_string>>

\* Area under the ROC curve as a fraction: twice the (positive, negative)
\* pairs ranked right plus the tied ones, over twice the pairs.
AreaUnderROC(df, labelCol) ==
    LET I   == 1..Len(df.rows)
        pos == {i \in I : df.rows[i].cols[labelCol] = 1}
        neg == {i \in I : df.rows[i].cols[labelCol] = 0}
        p(i) == df.rows[i].probability[2]
    IN  <<2 * Cardinality({pr \in pos \X neg : p(pr[1]) > p(pr[2])})
            + Cardinality({pr \in pos \X neg : p(pr[1]) = p(pr[2])}),
          2 * Cardinality(pos \X neg)>>

\* accuracy = BinaryClassificationEvaluator(labelCol='creditability').evaluate(predictions)
EvaluateCell ==
    /\ At("evaluate")
    /\ accuracy' = AreaUnderROC(predictions, "creditability")
    /\ display' = accuracy'
    /\ Completes
    /\ UNCHANGED <<csv, credits_df, feature_column_names, features_df,
                   train_data, test_data, resplit, rf, model, predictions,
                   importances_df, tree_model_string>>

-----------------------------------------------------------------------------
(* Inspector: the importance table *)

\* r put into a list that is sorted by importance, descending; among equal
\* importances the order is the sort's choice (after them, or before them).
Insert(r, sorted, after) ==
    LET ahead == {j \in 1..Len(sorted) :
                    \/ sorted[j].importance > r.importance
                    \/ after /\ sorted[j].importance = r.importance}
        n == Cardinality(ahead)
    IN  SubSeq(sorted, 1, n) \o <<r>> \o SubSeq(sorted, n + 1, Len(sorted))

RECURSIVE InsertionSort(_, _, _)
InsertionSort(rows, n, after) ==
    IF n = 0 THEN <<>> ELSE Insert(rows[n], InsertionSort(rows, n - 1, after), after)

\* A sort that orders the importance column alone and leaves the feature
\* column where it was.
SortColumnOnly(rows, after) ==
    LET sorted == InsertionSort(rows, Len(rows), after)
    IN  [i \in 1..Len(rows) |->
            [importance |-> sorted[i].importance, feature |-> rows[i].feature]]

\* DataFrame.sort_values('importance', ascending=False): whole rows move.
SortValuesDescending(rows, after) == InsertionSort(rows, Len(rows), after)

\* pd.DataFrame({'importance': importances, 'feature': names}): row i pairs
\* the i-th entry of each.
DataFrameOf(importances, names) ==
    [i \in 1..Len(names) |-> [importance |-> importances[i], feature |-> names[i]]]

\* importances_df = pd.DataFrame({...}).sort_values('importance', ascending=False)
\* followed by the bar plot of it.
ImportancesCell ==
    /\ At("importances")
    /\ \E after \in BOOLEAN :
          importances_df' =
              SortValuesDescending(
                  DataFrameOf(model.featureImportances, feature_column_names), after)
    /\ display' = [i \in 1..Len(importances_df') |->
                      <<importances_df'[i].feature, importances_df'[i].importance>>]
    /\ Completes
    /\ UNCHANGED <<csv, credits_df, feature_column_names, features_df,
                   train_data, test_data, resplit, rf, model, predictions,
                   accuracy, tree_model_string>>

-----------------------------------------------------------------------------
(* Inspector: the printed tree.  Python strings are sequences of characters. *)

\* The characters of each column name.
Chars ==
    ("balance" :> <<"b", "a", "l", "a", "n", "c", "e">>) @@
    ("duration" :> <<"d", "u", "r", "a", "t", "i", "o", "n">>) @@
    ("history" :> <<"h", "i", "s", "t", "o", "r", "y">>) @@
    ("purpose" :> <<"p", "u", "r", "p", "o", "s", "e">>) @@
    ("amount" :> <<"a", "m", "o", "u", "n", "t">>) @@
    ("savings" :> <<"s", "a", "v", "i", "n", "g", "s">>) @@
    ("employment" :> <<"e", "m", "p", "l", "o", "y", "m", "e", "n", "t">>) @@
    ("instPercent" :> <<"i", "n", "s", "t", "P", "e", "r", "c", "e", "n", "t">>) @@
    ("sexMarried" :> <<"s", "e", "x", "M", "a", "r", "r", "i", "e", "d">>) @@
    ("guarantors" :> <<"g", "u", "a", "r", "a", "n", "t", "o", "r", "s">>) @@
    ("residenceDuration" :> <<"r", "e", "s", "i", "d", "e", "n", "c", "e", "D", "u", "r", "a", "t", "i", "o", "n">>) @@
    ("assets" :> <<"a", "s", "s", "e", "t", "s">>) @@
    ("age" :> <<"a", "g", "e">>) @@
    ("concCredit" :> <<"c", "o", "n", "c", "C", "r", "e", "d", "i", "t">>) @@
    ("apartment" :> <<"a", "p", "a", "r", "t", "m", "e", "n", "t">>) @@
    ("credits" :> <<"c", "r", "e", "d", "i", "t", "s">>) @@
    ("occupation" :> <<"o", "c", "c", "u", "p", "a", "t", "i", "o", "n">>) @@
    ("dependents" :> <<"d", "e", "p", "e", "n", "d", "e", "n", "t", "s">>) @@
    ("hasPhone" :> <<"h", "a", "s", "P", "h", "o", "n", "e">>) @@
    ("foreign" :> <<"f", "o", "r", "e", "i", "g", "n">>)

Digit(d) == <<"0", "1", "2", "3", "4", "5", "6", "7", "8", "9">>[d + 1]

\* '{}'.format(n) for a natural number n.
RECURSIVE Decimal(_)
Decimal(n) == IF n < 10 THEN <<Digit(n)>> ELSE Decimal(n \div 10) \o <<Digit(n % 10)>>

\* The text by which the library's dump names feature index f.
FeatureText(f) == <<"f", "e", "a", "t", "u", "r", "e", " ">> \o Decimal(f)

\* The dump of the subtree under split k of a tree, with name[f] written
\* for the feature of each split.
RECURSIVE DebugLines(_, _, _)
DebugLines(tree, k, name) ==
    IF k > Len(tree) THEN <<" ", "P", "r", "e", "d", "i", "c", "t", ":", " ", "0", ".", "0", "\n">>
    ELSE <<" ", "I", "f", " ", "(">> \o name[tree[k]] \o <<" ", "<", "=", " ", "2", ".", "5", ")", "\n">>
           \o DebugLines(tree, k + 1, name)
           \o <<" ", "E", "l", "s", "e", " ", "(">> \o name[tree[k]] \o <<" ", ">", " ", "2", ".", "5", ")", "\n">>
           \o <<" ", "P", "r", "e", "d", "i", "c", "t", ":", " ", "1", ".", "0", "\n">>

\* model.trees[0].toDebugString
ToDebugString(tree) ==
    DebugLines(tree, 1, [f \in {tree[k] : k \in 1..Len(tree)} |-> FeatureText(f)])

MatchAt(s, j, old) == s[j] = old[1] /\ \A k \in 2..Len(old) : s[j + k - 1] = old[k]

\* First place at or after i where old occurs in s; 0 when there is none.
FindFrom(s, i, old) ==
    LET hits == {j \in i..(Len(s) - Len(old) + 1) : MatchAt(s, j, old)}
    IN  IF hits = {} THEN 0 ELSE SetMin(hits)

\* str.replace(old, new): every occurrence, left to right, none overlapping.
RECURSIVE ReplaceFrom(_, _, _, _)
ReplaceFrom(s, i, old, new) ==
    LET j == FindFrom(s, i, old)
    IN  IF j = 0 THEN SubSeq(s, i, Len(s))
        ELSE SubSeq(s, i, j - 1) \o new \o ReplaceFrom(s, j + Len(old), old, new)

Replace(s, old, new) == ReplaceFrom(s, 1, old, new)

\* A pattern written without the space that ends it: 'feature {}'.format(index)
PatternNoSpace(index) == <<"f", "e", "a", "t", "u", "r", "e", " ">> \o Decimal(index)

\* 'feature {} '.format(index)
Pattern(index) == <<"f", "e", "a", "t", "u", "r", "e", " ">> \o Decimal(index) \o <<" ">>

\* '{} '.format(column_name)
Replacement(column_name) == Chars[column_name] \o <<" ">>

\* The loop over enumerate(names) from its n-th entry on; each replacement
\* is computed on the result of the one before (Len is always >= 0).
RECURSIVE SubstituteFrom(_, _, _)
SubstituteFrom(s, names, n) ==
    IF n > Len(names) THEN s
    ELSE LET replaced == Replace(s, Pattern(n - 1), Replacement(names[n]))
         IN  IF Len(replaced) >= 0 THEN SubstituteFrom(replaced, names, n + 1) ELSE s

\* tree_model_string = model.trees[0].toDebugString; the loop; print(...)
TreeDumpCell ==
    /\ At("treeDump")
    /\ tree_model_string' = SubstituteFrom(ToDebugString(model.trees0), feature_column_names, 1)
    /\ display' = tree_model_string'
    /\ Completes
    /\ UNCHANGED <<csv, credits_df, feature_column_names, features_df,
                   train_data, test_data, resplit, rf, model, predictions,
                   accuracy, importances_df>>

-----------------------------------------------------------------------------
(* The run *)

\* A fresh kernel: nothing is bound yet.
Fresh ==
    /\ pc = 1
    /\ error = "none"
    /\ credits_df = NULL
    /\ display = NULL
    /\ feature_column_names = NULL
    /\ features_df = NULL
    /\ train_data = NULL
    /\ test_data = NULL
    /\ resplit = NULL
    /\ rf = NULL
    /\ model = NULL
    /\ predictions = NULL
    /\ accuracy = NULL
    /\ importances_df = NULL
    /\ tree_model_string = NULL

\* Any file of up to MaxRows lines.
Init == csv \in CsvFilesOf(CsvLines, MaxRows) /\ Fresh

\* A well-formed file and one with an unknown balance code.
SampleFiles ==
    {[readable |-> TRUE, lines |-> <<CsvLine(1, 1, Num(3)), CsvLine(0, 4, Num(3))>>],
     [readable |-> TRUE, lines |-> <<CsvLine(1, 5, Num(3))>>]}

InitSample == csv \in SampleFiles /\ Fresh

\* The cells around the training cell.
Explore ==
    \/ SessionCell
    \/ LoadCell
    \/ PrintSchemaCell
    \/ HeadCell
    \/ DescribeCell
    \/ GroupAvgCell
    \/ BoxPlotCell
    \/ PivotCell

Prepare ==
    \/ FeatureNamesCell
    \/ AssembleCell
    \/ SplitCell

Use ==
    \/ PredictCell
    \/ EvaluateCell
    \/ ImportancesCell
    \/ TreeDumpCell

\* The library learns one forest.
TrainSample == TrainCell({[a |-> 1, b |-> 2, tree |-> <<0, 12>>]})

\* The library learns any importances.
TrainImportances == TrainCell({f \in Forests(0..MaxImportance, 1) : f.tree = <<0>>})

\* The library learns any first tree.
TrainTrees == TrainCell(Forests({1}, MaxSplits))

Next == Explore \/ Prepare \/ TrainSample \/ Use

Spec == Init /\ [][Next]_vars

\* The run, with the split cell run a second time at some point after the first.
NextTwoRuns == Next \/ SplitCellAgain

SpecTwoRuns == Init /\ [][NextTwoRuns]_vars

NextImportances == Explore \/ Prepare \/ TrainImportances \/ Use

SpecImportances == InitSample /\ [][NextImportances]_vars

NextTrees == Explore \/ Prepare \/ TrainTrees \/ Use

SpecTrees == InitSample /\ [][NextTrees]_vars

-----------------------------------------------------------------------------
(* Properties *)

Rows(df) == {df.rows[i] : i \in 1..Len(df.rows)}

\* C1: once the split cell has run, train_data and test_data share no row,
\* together hold exactly the rows of features_df, each once and unchanged.
C1_SplitIsPartition ==
    Past("split") =>
        /\ RowIds(train_data) \cap RowIds(test_data) = {}
        /\ RowIds(train_data) \cup RowIds(test_data) = RowIds(features_df)
        /\ Len(train_data.rows) + Len(test_data.rows) = Len(features_df.rows)
        /\ Rows(train_data) \cup Rows(test_data) = Rows(features_df)

C1_BothSidesHoldRows ==
    Past("split") /\ Len(train_data.rows) > 0 /\ Len(test_data.rows) > 0

C3_VectorFollowsNames ==
    Past("assemble") =>
        /\ Len(feature_column_names) = 20
        /\ feature_column_names[1] = "balance"
        /\ feature_column_names[20] = "foreign"
        /\ \A i \in 1..20 : feature_column_names[i] # "creditability"
        /\ Len(features_df.rows) = Len(credits_df.rows)
        /\ \A k \in 1..Len(features_df.rows) :
              /\ features_df.rows[k].cols = credits_df.rows[k].cols
              /\ Len(features_df.rows[k].features) = 20
              /\ \A i \in 1..20 :
                    features_df.rows[k].features[i]
                        = credits_df.rows[k].cols[feature_column_names[i]]

C3_RowsAssembled ==
    /\ Past("assemble")
    /\ \E k \in 1..Len(features_df.rows) :
          features_df.rows[k].cols["creditability"] # features_df.rows[k].features[1]

\* C4: the sorted importance table has one row for each of the 20 features,
\* the row of feature i carries the importance the model holds at index i,
\* and the rows run by importance, descending.
C4_ImportancePairsIntact ==
    Past("importances") =>
        /\ Len(importances_df) = 20
        /\ \A i \in 1..20 :
              /\ Cardinality({k \in 1..20 : importances_df[k].feature = FeatureColumnNames[i]}) = 1
              /\ \A k \in 1..20 :
                    importances_df[k].feature = FeatureColumnNames[i]
                        => importances_df[k].importance = model.featureImportances[i]
        /\ \A k \in 1..19 : importances_df[k].importance >= importances_df[k + 1].importance

C4_SortMovedRows ==
    /\ Past("importances")
    /\ importances_df[1].feature # FeatureColumnNames[1]
    /\ importances_df[1].importance > importances_df[20].importance

\* C5: after the loop, the printed tree is the dump of trees[0] with the
\* column name of each split's feature written where 'feature <index>' stood,
\* and no 'feature <index> ' is left for any index.
C5_EveryIndexRenamed ==
    Past("treeDump") =>
        /\ tree_model_string
              = DebugLines(model.trees0, 1,
                           [f \in FeatureIndices |-> Chars[FeatureColumnNames[f + 1]]])
        /\ \A index \in FeatureIndices :
              FindFrom(tree_model_string, 1, Pattern(index)) = 0

C5_PrefixIndicesRenamed ==
    /\ Past("treeDump")
    /\ \E j, k \in 1..Len(model.trees0) : model.trees0[j] = 1 /\ model.trees0[k] >= 10

\* C6: the pivot cell completes only when every balance code is one of 1..4,
\* and then shows the fixed description of each; a lookup failure leaves the
\* run at the pivot cell.
C6_UnknownBalanceRaises ==
    /\ Past("pivot") =>
          \A k \in 1..Len(credits_df.rows) : credits_df.rows[k].cols["balance"] \in 1..4
    /\ error = "lookup" =>
          /\ pc = CellIndex("pivot")
          /\ \E k \in 1..Len(credits_df.rows) : credits_df.rows[k].cols["balance"] \notin 1..4
    /\ At("featureNames") =>
          \A i \in 1..Len(display) :
              display[i].checking_account_status =
                  CASE display[i].balance = 1 -> "< 0 DM"
                    [] display[i].balance = 2 -> "0 <= ... < 200 DM"
                    [] display[i].balance = 3 -> "... >= 200 DM"
                    [] display[i].balance = 4 -> "no checking account"

C6_LookupFailed ==
    /\ error = "lookup"
    /\ \E k \in 1..Len(credits_df.rows) : credits_df.rows[k].cols["balance"] \in 1..4

\* C7: the trained forest has 20 trees, depth at most 5, seed 42, tries 5 of
\* the 20 features at a split, and bins continuous features with a limit of 150.
C7_TrainerAsDocumented ==
    Past("train") =>
        /\ rf.numTrees = 20
        /\ rf.maxDepth = 5
        /\ rf.seed = 42
        /\ model.numFeatures = 20
        /\ model.featuresPerSplit = 5
        /\ rf.maxBins = 150

C9_ExplorerLeavesData ==
    /\ Past("load") => credits_df = ReadCsv(csv)
    /\ Past("assemble") =>
          \A k \in 1..Len(features_df.rows) :
              features_df.rows[k].cols = ReadCsv(csv).rows[k].cols

C9_Explored == At("assemble") /\ Len(credits_df.rows) > 1

\* C10: the model is fitted on the rows of train_data alone, the predictions
\* are the rows of test_data alone, and no scored row was fitted on.
C10_TrainTestIsolation ==
    /\ Past("train") => model.fittedOn = RowIds(train_data)
    /\ Past("predict") =>
          /\ RowIds(predictions) = RowIds(test_data)
          /\ RowIds(predictions) \cap model.fittedOn = {}
    /\ Past("evaluate") => accuracy = AreaUnderROC(Transform(model, test_data), "creditability")

C10_ScoredAndFitted ==
    Past("evaluate") /\ RowIds(predictions) # {} /\ model.fittedOn # {}

====
